---- MODULE Spec2Model ----
(***************************************************************************)
(* Model of src/App.js: the App component of MyLocation-Expo.              *)
(*                                                                         *)
(* The component keeps three pieces of React state (isSwitchOn, isLoading, *)
(* locations) and two AsyncStorage keys (@darkMode, @locations).  Its four *)
(* async functions are modelled step by step: every piece of code between  *)
(* two awaits is one atomic action (JavaScript runs it to completion), and *)
(* every AsyncStorage request is served by the store in a step of its own, *)
(* so that several invocations can be in flight at once, as they can in    *)
(* the running application.  AsyncStorage promises no order among          *)
(* outstanding requests, so they are served and resumed in any order.      *)
(***************************************************************************)
EXTENDS Integers, Sequences, FiniteSets, TLC

\* ---------------------------------------------------------------- bounds
\* number of user interactions (switch toggles, button presses)
MaxCalls == 2

\* What one getLocation call observes: by how much Date.now() has advanced
\* since the previous call, and the results of its three Math.random() calls
\* (id suffix, latitude, longitude).
Observations == {<<0, 0, 0, 1>>, <<1, 1, 1, 0>>}

\* ------------------------------------------------------- storage contents
\* The text stored under a key.  tag "absent" stands for a missing key
\* (getItem resolves to null), "empty" for the empty string, "bad" for text
\* that is not JSON, "true"/"false" for the JSON booleans and "arr" for a
\* JSON array whose elements are the encoded records in items.
Text(tag, items) == [tag |-> tag, items |-> items]
Absent == Text("absent", <<>>)
EmptyText == Text("empty", <<>>)
BadText == Text("bad", <<>>)

DARK_MODE_KEY == "@darkMode"
LOCATIONS_KEY == "@locations"

\* A LocationRecord as built by getLocation.
LocationRecord(now, suffix, lat, lon, ts) ==
    [id |-> <<now, suffix>>, latitude |-> lat, longitude |-> lon, timestamp |-> ts]

\* JSON text of one record: the four properties in insertion order.
EncodeRecord(r) == <<r.id[1], r.id[2], r.latitude, r.longitude, r.timestamp>>
\* a decoder that confuses the two coordinates
DecodeRecord_swapped(t) == LocationRecord(t[1], t[2], t[4], t[3], t[5])
DecodeRecord(t) == LocationRecord(t[1], t[2], t[3], t[4], t[5])

\* JSON.stringify of a boolean and of an array of records.
StringifyBool(b) == IF b THEN Text("true", <<>>) ELSE Text("false", <<>>)
StringifyList(list) == Text("arr", [k \in 1..Len(list) |-> EncodeRecord(list[k])])

\* JSON.parse: ok = FALSE when it throws a SyntaxError.
JSONparse(text) ==
    CASE text.tag = "true" -> [ok |-> TRUE, val |-> TRUE]
      [] text.tag = "false" -> [ok |-> TRUE, val |-> FALSE]
      [] text.tag = "arr" ->
            [ok |-> TRUE, val |-> [k \in 1..Len(text.items) |-> DecodeRecord(text.items[k])]]
      [] OTHER -> [ok |-> FALSE, val |-> <<>>]

Truthy_null(text) == text.tag # "empty"

\* JavaScript truthiness of a getItem result: null and "" are falsy.
Truthy(text) == text.tag \notin {"absent", "empty"}

\* A record written by an earlier run of the application.
OldRecord == LocationRecord(0, 0, 0, 0, 0)

VARIABLES
    isSwitchOn,   \* useState(false)
    isLoading,    \* useState(false)
    locations,    \* useState([])
    darkStore,    \* AsyncStorage value under DARK_MODE_KEY
    locStore,     \* AsyncStorage value under LOCATIONS_KEY
    calls,        \* the invocations of the async functions that are in flight
    mounted,      \* the mount effect has run
    clock,        \* last value the system clock returned
    presses,      \* how many user interactions took place
    hist          \* history of the run (not program state)

vars == <<isSwitchOn, isLoading, locations, darkStore, locStore, calls, mounted,
          clock, presses, hist>>

NoLocation == LocationRecord(0 - 1, 0, 0, 0, 0)

\* the switch starting in the on position
InitialSwitchState_on == TRUE
\* useState(false), line 20
InitialSwitchState == FALSE

\* a toggle that forgets the negation
NewSwitchState_same(switchOn) == switchOn
\* const newSwitchState = !isSwitchOn, line 45
NewSwitchState(switchOn) == ~switchOn

\* a catch block that rolls the switch back
SwitchAfterFailedSave_reverts(switchOn) == ~switchOn
\* isSwitchOn after the catch block of onToggleSwitch: it has no setIsSwitchOn
SwitchAfterFailedSave(switchOn) == switchOn

\* the new record put at the end of the list
UpdatedLocations_appends(newLocation, currentLocations) == currentLocations \o <<newLocation>>
\* const updatedLocations = [newLocation, ...currentLocations], line 71
UpdatedLocations(newLocation, currentLocations) == <<newLocation>> \o currentLocations

\* a catch block that empties the list, as the one of loadLocations does
LocationsAfterFailedSave_clears(current) == <<>>
\* locations after the catch block of getLocation: it has no setLocations
LocationsAfterFailedSave(current) == current

\* a catch block without setLocations([])
LocationsAfterFailedLoad_keeps(current) == current
\* locations after the catch block of loadLocations: setLocations([]), line 109
LocationsAfterFailedLoad(current) == <<>>

\* a catch block of loadDarkMode that logs the failure without alerting
LoadingInFinally_inTry(current, error) == IF error = "none" THEN FALSE ELSE current

\* finally { setIsLoading(false); } of getLocation and loadLocations: the
\* flag after an invocation that ended with the given error ("none" when the
\* try block ran to its end).
LoadingInFinally(current, error) == FALSE

StoreAfterLoad_initialises(stored, c) ==
    IF c.error = "none" /\ c.value = Absent THEN StringifyList(<<>>) ELSE stored

\* The locations key after loadLocations has run with the stored text being
\* `stored`: no path of the function writes (the setItem of an initial list
\* at line 103 is commented out).
StoreAfterLoad(stored, c) == stored

AlertsInCatch_silent(fn) == IF fn = "loadDarkMode" THEN 0 ELSE 1
\* Alert.alert calls in the catch block of an async function: one each,
\* lines 39, 51, 77, 108
AlertsInCatch(fn) == 1

\* One invocation of an async function, from its call to its return.
\*   pc: "getItem"/"setItem" = the request is outstanding, "gotItem"/"didSet" =
\*   the store has answered and the continuation is ready to run.
\*   value: the text read or to be written.
\*   error: "read"/"write" = the promise rejected.
\*   overlap, preStore, preMem: history of the invocation (another invocation
\*   on the same key was in flight during it; the stored text and the React
\*   state when it started).
Call(fn, pc, value, newSwitchState, newLocation, preStore, preMem) ==
    [fn |-> fn, pc |-> pc, value |-> value, error |-> "none",
     newSwitchState |-> newSwitchState, newLocation |-> newLocation,
     updatedLocations |-> <<>>, overlap |-> FALSE,
     preStore |-> preStore, preMem |-> preMem]

KeyOf(fn) == IF fn \in {"loadDarkMode", "onToggleSwitch"} THEN DARK_MODE_KEY ELSE LOCATIONS_KEY

\* indices of the invocations in flight against a key
Active(key) == {i \in DOMAIN calls : KeyOf(calls[i].fn) = key}

\* hist.appended: the records built by getLocation so far, in call order
\* hist.serial:   storage started without locations and every invocation on
\*                the locations key so far ran alone and without error
\* hist.lastDark: the toggle whose write was stored last (none: <<>>)
\* hist.restarted: the application was restarted
\* hist.darkWrote: a toggle of this app run had its write stored
\* hist.darkFailed: a dark-mode invocation of this app run ended on an error
\* hist.last:     how the invocation that returned last ended (none: <<>>)
\* hist.saved:    a getLocation of this app run has returned after its write
\* hist.focus:    the key the user acts on, where only one key is explored
Init ==
    /\ isSwitchOn = InitialSwitchState
    /\ isLoading = FALSE
    /\ locations = <<>>
    /\ darkStore \in {Absent, StringifyBool(TRUE), StringifyBool(FALSE), BadText}
    /\ locStore \in {Absent, EmptyText, BadText, StringifyList(<<>>), StringifyList(<<OldRecord>>)}
    /\ calls = <<>>
    /\ mounted = FALSE
    /\ clock = 1
    /\ presses = 0
    /\ \E focus \in {DARK_MODE_KEY, LOCATIONS_KEY} :
         hist = [appended |-> <<>>, serial |-> locStore \in {Absent, StringifyList(<<>>)},
                 lastDark |-> <<>>, restarted |-> FALSE, last |-> <<>>, saved |-> FALSE,
                 focus |-> focus, darkWrote |-> FALSE, darkFailed |-> FALSE]

\* calls after invocation i has returned
Return(i) == SubSeq(calls, 1, i - 1) \o SubSeq(calls, i + 1, Len(calls))

\* hist after invocation c has returned with the given error ("none", "read",
\* "parse", "write") having made the given number of Alert.alert calls
Returned(c, error, alerts) ==
    [hist EXCEPT !.last = <<[fn |-> c.fn, error |-> error, alerts |-> alerts,
                             overlap |-> c.overlap]>>,
                 !.serial = @ /\ (KeyOf(c.fn) = LOCATIONS_KEY => error = "none"),
                 !.darkFailed = @ \/ (KeyOf(c.fn) = DARK_MODE_KEY /\ error # "none")]

\* calls after invocation c of an async function has been started: c runs
\* up to its first await.
Begin(c) ==
    LET busy == Active(KeyOf(c.fn))
    IN  Append([i \in DOMAIN calls |->
                   IF i \in busy THEN [calls[i] EXCEPT !.overlap = TRUE] ELSE calls[i]],
               [c EXCEPT !.overlap = (busy # {})])

\* --------------------------------------------------------------- actions

\* useEffect(() => { loadDarkMode(); loadLocations(); }, [])
Mount ==
    /\ ~mounted
    /\ mounted' = TRUE
    /\ isLoading' = TRUE
    /\ calls' = <<Call("loadDarkMode", "getItem", Absent, FALSE, NoLocation, darkStore, isSwitchOn),
                  Call("loadLocations", "getItem", Absent, FALSE, NoLocation, locStore, locations)>>
    /\ UNCHANGED <<isSwitchOn, locations, darkStore, locStore, clock, presses, hist>>

\* AsyncStorage.getItem(key) is answered: it resolves with the stored text
\* (null when the key is absent) or rejects.
AsyncStorage_getItem(i) ==
    /\ calls[i].pc = "getItem"
    /\ \E fail \in BOOLEAN :
         LET stored == IF KeyOf(calls[i].fn) = DARK_MODE_KEY THEN darkStore ELSE locStore
         IN  calls' = [calls EXCEPT ![i].pc = "gotItem",
                                    ![i].error = IF fail THEN "read" ELSE "none",
                                    ![i].value = IF fail THEN Absent ELSE stored]
    /\ UNCHANGED <<isSwitchOn, isLoading, locations, darkStore, locStore, mounted,
                   clock, presses, hist>>

\* AsyncStorage.setItem(key, value) is answered: the text is stored and the
\* promise resolves, or nothing is stored and it rejects.
AsyncStorage_setItem(i) ==
    /\ calls[i].pc = "setItem"
    /\ \E fail \in BOOLEAN :
         /\ calls' = [calls EXCEPT ![i].pc = "didSet",
                                   ![i].error = IF fail THEN "write" ELSE "none"]
         /\ IF fail
            THEN UNCHANGED <<darkStore, locStore, hist>>
            ELSE IF KeyOf(calls[i].fn) = DARK_MODE_KEY
                 THEN /\ darkStore' = calls[i].value
                      /\ hist' = [hist EXCEPT !.lastDark =
                                    <<[prev |-> calls[i].preMem, new |-> calls[i].newSwitchState]>>,
                                                !.darkWrote = TRUE]
                      /\ UNCHANGED locStore
                 ELSE /\ locStore' = calls[i].value
                      /\ UNCHANGED <<darkStore, hist>>
    /\ UNCHANGED <<isSwitchOn, isLoading, locations, mounted, clock, presses>>

\* loadDarkMode after its await
loadDarkMode_resume(i) ==
    /\ calls[i].fn = "loadDarkMode" /\ calls[i].pc = "gotItem"
    /\ LET c == calls[i]
           p == JSONparse(c.value)
       IN  IF c.error = "read"
           THEN /\ hist' = Returned(c, "read", AlertsInCatch(c.fn))
                /\ UNCHANGED isSwitchOn
           ELSE IF c.value # Absent
           THEN IF p.ok
                THEN /\ isSwitchOn' = p.val
                     /\ hist' = Returned(c, "none", 0)
                ELSE /\ hist' = Returned(c, "parse", AlertsInCatch(c.fn))
                     /\ UNCHANGED isSwitchOn
           ELSE /\ hist' = Returned(c, "none", 0)
                /\ UNCHANGED isSwitchOn
    /\ calls' = Return(i)
    /\ UNCHANGED <<isLoading, locations, darkStore, locStore, mounted, clock, presses>>

\* onToggleSwitch up to its await
onToggleSwitch ==
    /\ mounted /\ presses < MaxCalls
    /\ presses' = presses + 1
    /\ LET newSwitchState == NewSwitchState(isSwitchOn)
       IN  /\ isSwitchOn' = newSwitchState
           /\ calls' = Begin(Call("onToggleSwitch", "setItem", StringifyBool(newSwitchState),
                                  newSwitchState, NoLocation, darkStore, isSwitchOn))
    /\ UNCHANGED <<isLoading, locations, darkStore, locStore, mounted, clock, hist>>

\* onToggleSwitch after its await
onToggleSwitch_resume(i) ==
    /\ calls[i].fn = "onToggleSwitch" /\ calls[i].pc = "didSet"
    /\ LET c == calls[i]
       IN  IF c.error = "write"
           THEN /\ hist' = Returned(c, "write", AlertsInCatch(c.fn))
                /\ isSwitchOn' = SwitchAfterFailedSave(isSwitchOn)
           ELSE /\ hist' = Returned(c, "none", 0)
                /\ UNCHANGED isSwitchOn
    /\ calls' = Return(i)
    /\ UNCHANGED <<isLoading, locations, darkStore, locStore, mounted, clock, presses>>

\* getLocation up to its first await, the clock, Math.random and the position
\* service yielding obs
getLocationObserving(obs) ==
    /\ mounted /\ presses < MaxCalls
    /\ presses' = presses + 1
    /\ LET now == clock + obs[1]
           newLocation == LocationRecord(now, obs[2], obs[3], obs[4], now)
       IN  /\ isLoading' = TRUE
           /\ clock' = now
           /\ calls' = Begin(Call("getLocation", "getItem", Absent, FALSE, newLocation,
                                  locStore, locations))
           /\ hist' = [hist EXCEPT !.appended = Append(@, newLocation),
                                   !.serial = @ /\ Active(LOCATIONS_KEY) = {}]
    /\ UNCHANGED <<isSwitchOn, locations, darkStore, locStore, mounted>>

getLocation == \E obs \in Observations : getLocationObserving(obs)

\* getLocation between its two awaits
getLocation_afterGet(i) ==
    /\ calls[i].fn = "getLocation" /\ calls[i].pc = "gotItem"
    /\ LET c == calls[i]
           p == JSONparse(c.value)
           currentLocations == IF Truthy(c.value) THEN p.val ELSE <<>>
           updatedLocations == UpdatedLocations(c.newLocation, currentLocations)
       IN  IF c.error = "read"
           THEN /\ calls' = Return(i)
                /\ hist' = Returned(c, "read", AlertsInCatch(c.fn))
                /\ locations' = LocationsAfterFailedSave(locations)
                /\ isLoading' = LoadingInFinally(isLoading, "read")
           ELSE IF Truthy(c.value) /\ ~p.ok
           THEN /\ calls' = Return(i)
                /\ hist' = Returned(c, "parse", AlertsInCatch(c.fn))
                /\ locations' = LocationsAfterFailedSave(locations)
                /\ isLoading' = LoadingInFinally(isLoading, "parse")
           ELSE /\ calls' = [calls EXCEPT ![i].pc = "setItem",
                                         ![i].updatedLocations = updatedLocations,
                                         ![i].value = StringifyList(updatedLocations)]
                /\ UNCHANGED <<isLoading, locations, hist>>
    /\ UNCHANGED <<isSwitchOn, darkStore, locStore, mounted, clock, presses>>

\* getLocation after its second await
getLocation_afterSet(i) ==
    /\ calls[i].fn = "getLocation" /\ calls[i].pc = "didSet"
    /\ LET c == calls[i]
       IN  IF c.error = "write"
           THEN /\ hist' = Returned(c, "write", AlertsInCatch(c.fn))
                /\ locations' = LocationsAfterFailedSave(locations)
           ELSE /\ locations' = c.updatedLocations
                /\ hist' = [Returned(c, "none", 0) EXCEPT !.saved = TRUE]
    /\ calls' = Return(i)
    /\ isLoading' = LoadingInFinally(isLoading, hist'.last[1].error)
    /\ UNCHANGED <<isSwitchOn, darkStore, locStore, mounted, clock, presses>>

\* loadLocations after its await
loadLocations_resume(i) ==
    /\ calls[i].fn = "loadLocations" /\ calls[i].pc = "gotItem"
    /\ LET c == calls[i]
           p == JSONparse(c.value)
       IN  IF c.error = "read"
           THEN /\ hist' = Returned(c, "read", AlertsInCatch(c.fn))
                /\ locations' = LocationsAfterFailedLoad(locations)
           ELSE IF c.value # Absent
           THEN IF p.ok
                THEN /\ locations' = p.val
                     /\ hist' = Returned(c, "none", 0)
                ELSE /\ hist' = Returned(c, "parse", AlertsInCatch(c.fn))
                     /\ locations' = LocationsAfterFailedLoad(locations)
           ELSE /\ locations' = <<>>
                /\ hist' = Returned(c, "none", 0)
    /\ calls' = Return(i)
    /\ isLoading' = LoadingInFinally(isLoading, hist'.last[1].error)
    /\ locStore' = StoreAfterLoad(locStore, calls[i])
    /\ UNCHANGED <<isSwitchOn, darkStore, mounted, clock, presses>>

\* The application is killed and started again: the component is constructed
\* anew (lines 20-22), the invocations in flight are gone, AsyncStorage stays.
Restart ==
    /\ mounted
    /\ mounted' = FALSE
    /\ isSwitchOn' = InitialSwitchState
    /\ isLoading' = FALSE
    /\ locations' = <<>>
    /\ calls' = <<>>
    /\ hist' = [hist EXCEPT !.serial = @ /\ Active(LOCATIONS_KEY) = {},
                            !.restarted = TRUE, !.last = <<>>, !.saved = FALSE,
                            !.darkWrote = FALSE, !.darkFailed = FALSE]
    /\ UNCHANGED <<darkStore, locStore, clock, presses>>

Next ==
    \/ Mount
    \/ \E i \in DOMAIN calls : AsyncStorage_getItem(i)
    \/ \E i \in DOMAIN calls : AsyncStorage_setItem(i)
    \/ \E i \in DOMAIN calls : loadDarkMode_resume(i)
    \/ onToggleSwitch
    \/ \E i \in DOMAIN calls : onToggleSwitch_resume(i)
    \/ getLocation
    \/ \E i \in DOMAIN calls : getLocation_afterGet(i)
    \/ \E i \in DOMAIN calls : getLocation_afterSet(i)
    \/ \E i \in DOMAIN calls : loadLocations_resume(i)
    \/ Restart

Spec == Init /\ [][Next]_vars

\* The handlers of one key read and write only that key's variables
\* (isSwitchOn and darkStore, or isLoading, locations and locStore).  The
\* behaviour on one key is therefore explored with the user acting on that key
\* only and the requests on the other key left outstanding.
NextLocations ==
    \/ Mount
    \/ \E i \in Active(LOCATIONS_KEY) : AsyncStorage_getItem(i)
    \/ \E i \in Active(LOCATIONS_KEY) : AsyncStorage_setItem(i)
    \/ getLocation
    \/ \E i \in DOMAIN calls : getLocation_afterGet(i)
    \/ \E i \in DOMAIN calls : getLocation_afterSet(i)
    \/ \E i \in DOMAIN calls : loadLocations_resume(i)
    \/ Restart

InitLocations == Init /\ darkStore = Absent /\ hist.focus = LOCATIONS_KEY

SpecLocations == InitLocations /\ [][NextLocations]_vars

NextDarkMode ==
    \/ Mount
    \/ \E i \in Active(DARK_MODE_KEY) : AsyncStorage_getItem(i)
    \/ \E i \in Active(DARK_MODE_KEY) : AsyncStorage_setItem(i)
    \/ \E i \in DOMAIN calls : loadDarkMode_resume(i)
    \/ onToggleSwitch
    \/ \E i \in DOMAIN calls : onToggleSwitch_resume(i)
    \/ Restart

InitDarkMode == Init /\ locStore = Absent /\ hist.focus = DARK_MODE_KEY

SpecDarkMode == InitDarkMode /\ [][NextDarkMode]_vars

\* Both explorations together, for what is said of all four async functions
\* at once: in each behaviour the user acts on the key hist.focus.
NextEitherKey ==
    \/ hist.focus = LOCATIONS_KEY /\ NextLocations
    \/ hist.focus = DARK_MODE_KEY /\ NextDarkMode

InitEitherKey == InitLocations \/ InitDarkMode

SpecEitherKey == InitEitherKey /\ [][NextEitherKey]_vars

\* Every request to AsyncStorage is answered, and the continuation of an
\* await runs once its promise is settled.  Nothing obliges the user to press
\* or the system to restart the application.
LocationsStep(i) ==
    \/ i \in Active(LOCATIONS_KEY) /\ AsyncStorage_getItem(i)
    \/ i \in Active(LOCATIONS_KEY) /\ AsyncStorage_setItem(i)
    \/ i \in DOMAIN calls /\ getLocation_afterGet(i)
    \/ i \in DOMAIN calls /\ getLocation_afterSet(i)
    \/ i \in DOMAIN calls /\ loadLocations_resume(i)

FairLocations == \A i \in 1..(MaxCalls + 2) : WF_vars(LocationsStep(i))

\* Whether an invocation comes to an end does not depend on the position it
\* recorded, so one run of the application is followed, every press observing
\* the same values on a clock that advances.
Ticking == CHOOSE obs \in Observations : obs[1] > 0

NextLocationsOneRun ==
    \/ Mount
    \/ \E i \in Active(LOCATIONS_KEY) : AsyncStorage_getItem(i)
    \/ \E i \in Active(LOCATIONS_KEY) : AsyncStorage_setItem(i)
    \/ getLocationObserving(Ticking)
    \/ \E i \in DOMAIN calls : getLocation_afterGet(i)
    \/ \E i \in DOMAIN calls : getLocation_afterSet(i)
    \/ \E i \in DOMAIN calls : loadLocations_resume(i)

SpecLocationsFair == InitLocations /\ [][NextLocationsOneRun]_vars /\ FairLocations

\* ------------------------------------------------------------ properties

Reverse(seq) == [k \in 1..Len(seq) |-> seq[Len(seq) + 1 - k]]

IsSuffix(a, b) == Len(a) <= Len(b) /\ SubSeq(b, Len(b) - Len(a) + 1, Len(b)) = a

\* the list a stored text stands for (a missing key and "" stand for no records)
Persisted(text) == IF text.tag = "arr" THEN JSONparse(text).val ELSE <<>>

LocationsIdle == mounted /\ Active(LOCATIONS_KEY) = {}
DarkModeIdle == mounted /\ Active(DARK_MODE_KEY) = {}

\* the invocation that returned last is one of fn that ran alone on its key
LastAlone(fn) == hist.last # <<>> /\ hist.last[1].fn = fn /\ ~hist.last[1].overlap

\* C1: starting from empty storage, when N getLocation calls have run one
\* after the other (and after the mount-time load) with every storage
\* operation succeeding, the persisted list and the in-memory list both hold
\* the N records, the record of the k-th call at index N-k (0-based), that is
\* in the reverse of the call order.
C1_SequentialAppends ==
    (hist.serial /\ ~hist.restarted /\ LocationsIdle) =>
        /\ locations = Reverse(hist.appended)
        /\ Persisted(locStore) = Reverse(hist.appended)

C1_Witness ==
    /\ hist.serial /\ ~hist.restarted /\ LocationsIdle
    /\ Len(hist.appended) = 2 /\ hist.appended[1] # hist.appended[2]
    /\ locations = <<hist.appended[2], hist.appended[1]>>

\* C2: round trip: on empty storage, after one getLocation has appended
\* record r successfully and the application is started again, the
\* loadLocations of the new run sets the in-memory list to exactly <<r>>.
C2_RoundTrip ==
    (hist.serial /\ hist.restarted /\ Len(hist.appended) = 1 /\ LocationsIdle
       /\ LastAlone("loadLocations")) =>
        locations = <<hist.appended[1]>>

C2_Witness ==
    /\ hist.serial /\ hist.restarted /\ Len(hist.appended) = 1 /\ LocationsIdle
    /\ LastAlone("loadLocations")
    /\ locations = <<hist.appended[1]>>
    /\ locStore = StringifyList(<<hist.appended[1]>>)

\* C3: once the write of a toggle has succeeded, the stored dark-mode value
\* is the negation of the in-memory value the toggle found, and a
\* loadDarkMode that runs afterwards (alone, in the next app run) sets the
\* in-memory preference to that same value.
C3_TogglePersists ==
    hist.lastDark # <<>> =>
        /\ darkStore = StringifyBool(~hist.lastDark[1].prev)
        /\ (DarkModeIdle /\ LastAlone("loadDarkMode") /\ hist.last[1].error = "none") =>
                isSwitchOn = ~hist.lastDark[1].prev

C3_Witness ==
    /\ hist.lastDark # <<>> /\ hist.restarted
    /\ DarkModeIdle /\ LastAlone("loadDarkMode") /\ hist.last[1].error = "none"
    /\ isSwitchOn = TRUE /\ darkStore = StringifyBool(TRUE)

\* C4: when loadDarkMode has run (alone) on storage that has no dark-mode
\* key, the in-memory preference is false.
C4_UnsetLoadsFalse ==
    (DarkModeIdle /\ LastAlone("loadDarkMode") /\ hist.last[1].error = "none"
       /\ darkStore = Absent) =>
        isSwitchOn = FALSE

C4_Witness ==
    /\ DarkModeIdle /\ LastAlone("loadDarkMode") /\ hist.last[1].error = "none"
    /\ darkStore = Absent /\ isSwitchOn = FALSE

\* C5: whenever a getLocation of this run has written successfully and no
\* invocation on the locations key is in flight any more, the in-memory list
\* equals the persisted list.
C5_MemoryEqualsStorage ==
    (hist.saved /\ LocationsIdle) => locations = Persisted(locStore)

\* C6: every write to the locations key leaves the previously persisted
\* list as a suffix of the new persisted list.
C6_NeverLosesRecord ==
    [][locStore' # locStore => IsSuffix(Persisted(locStore), Persisted(locStore'))]_vars

\* C7: at no time are two invocations that touch the same key in flight.
C7_NoConcurrentOperations ==
    /\ Cardinality(Active(LOCATIONS_KEY)) <= 1
    /\ Cardinality(Active(DARK_MODE_KEY)) <= 1

\* C8: when loadLocations ends on a read failure or a parse failure, it has
\* returned normally: the in-memory list is empty, one alert was raised, and
\* isLoading is false unless a getLocation is in flight.
C8_LoadFailureYieldsEmpty ==
    (hist.last # <<>> /\ hist.last[1].fn = "loadLocations"
       /\ hist.last[1].error \in {"read", "parse"}) =>
        /\ locations = <<>>
        /\ hist.last[1].alerts = 1
        /\ LocationsIdle => ~isLoading

C8_Witness ==
    /\ hist.last # <<>> /\ hist.last[1].fn = "loadLocations"
    /\ hist.last[1].error = "parse"
    /\ locations = <<>> /\ LocationsIdle /\ ~isLoading /\ locStore = BadText

\* the step in which invocation i returns
Returns(i) == mounted' /\ Len(calls') = Len(calls) - 1 /\ calls' = Return(i)

\* C9: the step in which a getLocation returns after its read, its parse or
\* its write has failed raises one alert and leaves the persisted list and
\* the in-memory list as they are, which is as they were when it was called
\* if it ran alone.
C9_FailedAppendChangesNothing ==
    [][\A i \in DOMAIN calls :
         (calls[i].fn = "getLocation" /\ Returns(i) /\ hist'.last[1].error # "none") =>
            /\ hist'.last[1].alerts = 1
            /\ locStore' = locStore /\ locations' = locations
            /\ ~calls[i].overlap =>
                  (locStore' = calls[i].preStore /\ locations' = calls[i].preMem)]_vars

C9_Witness ==
    /\ hist.last # <<>> /\ hist.last[1].fn = "getLocation"
    /\ hist.last[1].error = "write" /\ ~hist.last[1].overlap
    /\ locations # <<>> /\ locations = Persisted(locStore)

\* C10: the step in which an onToggleSwitch returns after its write has
\* failed raises one alert and changes neither the in-memory preference nor
\* the stored value: if the toggle ran alone, the preference is the toggled
\* value and the stored value is the one from before the toggle.
C10_FailedToggleKeepsMemory ==
    [][\A i \in DOMAIN calls :
         (calls[i].fn = "onToggleSwitch" /\ calls[i].error = "write" /\ Returns(i)) =>
            /\ hist'.last[1].alerts = 1
            /\ isSwitchOn' = isSwitchOn /\ darkStore' = darkStore
            /\ ~calls[i].overlap =>
                  (isSwitchOn' = calls[i].newSwitchState /\ darkStore' = calls[i].preStore)]_vars

C10_Witness ==
    /\ hist.last # <<>> /\ hist.last[1].fn = "onToggleSwitch"
    /\ hist.last[1].error = "write" /\ ~hist.last[1].overlap
    /\ DarkModeIdle /\ isSwitchOn = TRUE /\ darkStore = StringifyBool(FALSE)

\* C11: the step in which loadDarkMode returns through its catch block (the
\* read was rejected or JSON.parse threw) leaves the in-memory preference
\* false, also when a toggle happened before the load finished.
C11_FailedLoadYieldsFalse ==
    [][\A i \in DOMAIN calls :
         (calls[i].fn = "loadDarkMode" /\ Returns(i) /\ hist'.last[1].error # "none") =>
            isSwitchOn' = FALSE]_vars

\* the continuation of invocation c is about to enter its catch block
ParseThrows(c) ==
    /\ c.pc = "gotItem" /\ c.error = "none"
    /\ IF c.fn = "getLocation" THEN Truthy(c.value) ELSE c.value # Absent
    /\ ~JSONparse(c.value).ok
Throws(c) == c.error # "none" \/ ParseThrows(c)

\* C12: every failure is reported exactly once: an invocation of any of the
\* four async functions returns having raised one alert if its read, its
\* parse or its write failed and none otherwise, and after the failure it
\* makes no further storage request: its only step is to return.
C12_FailureReportedOnce ==
    [][\A i \in DOMAIN calls :
         /\ Returns(i) => hist'.last[1].alerts = (IF Throws(calls[i]) THEN 1 ELSE 0)
         /\ (Throws(calls[i]) /\ mounted' /\ Len(calls') = Len(calls)) =>
                calls'[i] = calls[i]]_vars

C12_Witness ==
    /\ hist.last # <<>> /\ hist.last[1].fn = "loadDarkMode"
    /\ hist.last[1].error = "parse" /\ hist.last[1].alerts = 1
    /\ darkStore = BadText

UniqueIds(list) == \A a, b \in DOMAIN list : a # b => list[a].id # list[b].id

\* C13: no two records of the persisted list, and no two of the in-memory
\* list, share an id, also when two getLocation calls read the same clock
\* value.
C13_UniqueIds == UniqueIds(locations) /\ UniqueIds(Persisted(locStore))

\* C14: a missing locations key is not an error. loadLocations that read
\* "no such key" returns with the in-memory list empty and without alert;
\* getLocation that read "no such key" goes on, without alert, to write the
\* list holding only its new record, and that list is what gets stored.
C14_AbsentKeyIsDefault ==
    [][\A i \in DOMAIN calls :
         LET c == calls[i]
             readAbsent == c.pc = "gotItem" /\ c.error = "none" /\ c.value = Absent
             moved == mounted' /\ Len(calls') = Len(calls) /\ calls'[i] # c
         IN  /\ (c.fn = "loadLocations" /\ readAbsent /\ Returns(i)) =>
                    /\ locations' = <<>>
                    /\ hist'.last[1].error = "none" /\ hist'.last[1].alerts = 0
             /\ (c.fn = "getLocation" /\ readAbsent) =>
                    /\ ~Returns(i)
                    /\ moved => /\ calls'[i].pc = "setItem"
                                /\ calls'[i].value = StringifyList(<<c.newLocation>>)
                                /\ hist' = hist
             /\ (c.fn = "getLocation" /\ c.pc = "setItem" /\ moved
                   /\ calls'[i].error = "none") =>
                    locStore' = c.value]_vars

C14_Witness ==
    \E i \in DOMAIN calls :
       /\ calls[i].fn = "getLocation" /\ calls[i].pc = "didSet"
       /\ calls[i].error = "none" /\ ~calls[i].overlap
       /\ calls[i].preStore = Absent
       /\ locStore = StringifyList(<<calls[i].newLocation>>)

\* C15: every getLocation and loadLocations invocation comes to an end,
\* whether its storage requests succeed or fail, provided each request is
\* answered; the invocation that ends leaves isLoading false, and isLoading is
\* false whenever no such invocation is in flight.
C15_LoadingEnds ==
    /\ (Active(LOCATIONS_KEY) # {}) ~> (Active(LOCATIONS_KEY) = {} /\ ~isLoading)
    /\ [](Active(LOCATIONS_KEY) = {} => ~isLoading)
    /\ [][\A i \in Active(LOCATIONS_KEY) : Returns(i) => ~isLoading']_vars

C15_Witness ==
    /\ mounted /\ Active(LOCATIONS_KEY) = {} /\ ~isLoading
    /\ hist.last # <<>> /\ hist.last[1].fn = "getLocation" /\ hist.last[1].error = "write"

\* C16: isLoading is true in every state in which a getLocation or a
\* loadLocations invocation has started and not yet returned, also when two
\* of them overlap.
C16_LoadingWhileInFlight == Active(LOCATIONS_KEY) # {} => isLoading

\* C17: however the mount-time loadDarkMode and the onToggleSwitch invocations
\* of one app run interleave, if none of them ended on an error and at least
\* one toggle had its write stored, then once all of them have returned the
\* in-memory preference is the stored one.
C17_SettledPreferenceIsStored ==
    (DarkModeIdle /\ hist.darkWrote /\ ~hist.darkFailed) =>
        darkStore = StringifyBool(isSwitchOn)

\* C18: the loads never write storage. Starting the two loads at mount and
\* every step of a loadDarkMode or loadLocations invocation, on every path,
\* leave both keys as they were; the dark-mode key changes only in the step
\* that stores the write of an onToggleSwitch invocation, the locations key
\* only in the one that stores the write of a getLocation invocation.
Steps(i) == Returns(i) \/ (mounted' /\ Len(calls') = Len(calls) /\ calls'[i] # calls[i])

StoresWriteOf(fn) ==
    \E i \in DOMAIN calls :
       /\ calls[i].fn = fn /\ calls[i].pc = "setItem"
       /\ mounted' /\ Len(calls') = Len(calls) /\ calls'[i].pc = "didSet"
       /\ \A j \in DOMAIN calls \ {i} : calls'[j] = calls[j]

C18_LoadsNeverWrite ==
    [][/\ (~mounted /\ mounted') => (darkStore' = darkStore /\ locStore' = locStore)
       /\ \A i \in DOMAIN calls :
            (calls[i].fn \in {"loadDarkMode", "loadLocations"} /\ Steps(i)) =>
                (darkStore' = darkStore /\ locStore' = locStore)
       /\ darkStore' # darkStore => StoresWriteOf("onToggleSwitch")
       /\ locStore' # locStore => StoresWriteOf("getLocation")]_vars

C18_Witness ==
    /\ hist.last # <<>> /\ hist.last[1].fn = "loadLocations" /\ hist.last[1].error = "none"
    /\ ~hist.restarted /\ ~hist.saved /\ hist.appended = <<>>
    /\ locStore = Absent /\ locations = <<>>

====
